---- MODULE Spec2Model ----
(***************************************************************************)
(* Scoreboard controller (html/scoreboard.js): the #scoreboard element,    *)
(* the undo/redo snapshot stacks, the position descriptor, the local       *)
(* cache entry and the submissions each handler issues.                    *)
(***************************************************************************)
EXTENDS Integers, Sequences, FiniteSets, Bags, TLC

(* ------------------------------ bounds --------------------------------- *)

\* Number of pointer, change and focus events in one behaviour, with or without
\* a listener registered for them (typing and blurs are not counted).
MaxOps == 3

\* Largest counter value a remote or cached snapshot starts from.
MaxStart == 1

\* Number of events handled in one behaviour that also follows the submissions
\* to the remote endpoint.
NetOps == 2

\* Characters written by a write to scoreboard.xml that stops early.
CutShort == 10

(* ------------------------------ values --------------------------------- *)

\* JavaScript null, as held by the fields of current_position.
null == "<null>"

\* A missing regex group (no alpha channel) as seen by rgba2hex.
undefined == -1

Sides == {"home", "away"}

Counters == {"home_score", "away_score", "home_set", "away_set"}

\* The eight counter buttons wired by add_scoreboard_listeners.
ButtonIds ==
    {"home_set_plus", "home_set_minus", "away_set_plus", "away_set_minus",
     "home_score_plus", "home_score_minus", "away_score_plus", "away_score_minus"}

\* The .counter property bound to each button.
CounterOf(id) ==
    CASE id \in {"home_set_plus", "home_set_minus"} -> "home_set"
      [] id \in {"away_set_plus", "away_set_minus"} -> "away_set"
      [] id \in {"home_score_plus", "home_score_minus"} -> "home_score"
      [] id \in {"away_score_plus", "away_score_minus"} -> "away_score"

\* The .action property bound to each button.
ActionOf(id) ==
    IF id \in {"home_set_plus", "away_set_plus", "home_score_plus", "away_score_plus"}
    THEN "plus" ELSE "minus"

\* Texts a team-name element is edited to.
TeamNames == {"Lions", "Tigers"}

\* Rendered background colors (channels of rgb(r, g, b)).
Colors == {<<255, 0, 0>>, <<0, 0, 255>>}

\* Bounding boxes of the #screen container and pointer coordinates tried:
\* before, exactly at and past the midpoint (3, 3) of the box.
Rects == {[x |-> 1, y |-> 2, width |-> 4, height |-> 2]}

Coords == 2..4

\* Computed values the browser reports for an inset the inline style leaves unset.
UnsetComputed == {"auto", "8px"}

(* --------------------------- pure helpers ------------------------------ *)

HexDigits == <<"0", "1", "2", "3", "4", "5", "6", "7", "8", "9",
               "a", "b", "c", "d", "e", "f">>

RECURSIVE ToBase(_, _)
\* Number.prototype.toString(base) for a non-negative integer.
ToBase(n, base) ==
    IF n < base THEN HexDigits[n + 1]
    ELSE ToBase(n \div base, base) \o HexDigits[(n % base) + 1]

\* The text written by `textContent = n`.
toText(n) == IF n < 0 THEN "-" \o ToBase(-n, 10) ELSE ToBase(n, 10)

\* parseInt(text) for the decimal texts the counters hold.
parseInt(text) ==
    CHOOSE n \in -(MaxOps + 1)..(MaxOps + MaxStart + 1) : toText(n) = text

\* n.toString(16) without padStart.
Hex2NoPad(n) == ToBase(n, 16)

\* n.toString(16).padStart(2, '0')
Hex2(n) == IF n < 16 THEN "0" \o ToBase(n, 16) ELSE ToBase(n, 16)

\* rgba2hex applied to the regex groups <<r, g, b, a>> of a rendered color;
\* the alpha group is `undefined` for rgb(...), else alpha in thousandths.
rgba2hex(m) ==
    "#" \o Hex2(m[1]) \o Hex2(m[2]) \o Hex2(m[3]) \o
    (IF m[4] = undefined THEN ""
     ELSE Hex2((m[4] * 255 * 2 + 1000) \div 2000))

\* The regex groups of a computed background-color: rgb(r, g, b) gives no
\* alpha group, rgba(r, g, b, a) the alpha text (here in thousandths).
Groups(color) ==
    <<color[1], color[2], color[3], IF Len(color) = 4 THEN color[4] ELSE undefined>>

(* ----------------------- the #scoreboard element ----------------------- *)

\* Attributes and text that XMLSerializer writes out.
MarkupFields ==
    {"home_score", "away_score", "home_set", "away_set",
     "home_serve", "away_serve", "home_team", "away_team",
     "home_color", "away_color", "style"}

\* XML_SERIALIZER.serializeToString(element): markup only, no listeners.
Serialize(el) == [f \in MarkupFields |-> el[f]]

\* DOM_PARSER.parseFromString(text).getElementById('scoreboard'):
\* a fresh element with no event listeners or expando properties.
Parse(text) == [f \in MarkupFields \cup {"bound"} |->
                  IF f = "bound" THEN FALSE ELSE text[f]]

\* The scoreboard markup shipped with the page.
DefaultScoreboard ==
    [home_score |-> "0", away_score |-> "0", home_set |-> "0", away_set |-> "0",
     home_serve |-> FALSE, away_serve |-> FALSE,
     home_team |-> "HOME", away_team |-> "AWAY",
     home_color |-> <<255, 0, 0>>, away_color |-> <<0, 0, 255>>,
     style |-> <<>>, bound |-> FALSE]

\* Snapshots a previous session may have left at the remote endpoint or in the cache.
StoredSnapshots ==
    { [Serialize(DefaultScoreboard) EXCEPT
          !.home_score = toText(MaxStart), !.away_set = toText(MaxStart),
          !.home_serve = TRUE,
          !.style = <<<<"top", "0">>, <<"right", "0">>>>],
      [Serialize(DefaultScoreboard) EXCEPT
          !.away_score = toText(MaxStart),
          !.away_serve = TRUE, !.home_team = "Lions",
          !.style = <<<<"bottom", "0">>, <<"left", "0">>>>] }

(* ------------------------------- state --------------------------------- *)

VARIABLES
    phase,                  \* "loading" while load_initial_scoreboard is suspended at
                            \* `await fetch`, "reading" while it is suspended at
                            \* `await response.text()`, "ready" once its finally
                            \* callback has run
    scoreboard,             \* the #scoreboard element
    undoable_scoreboards,   \* snapshots reachable by undo
    redoable_scoreboards,   \* snapshots reachable by redo
    current_position,       \* the position descriptor {top, bottom, left, right}
    position_style,         \* style of the #position element
    undo_class, redo_class, \* highlight classes of the undo and redo buttons
    picker,                 \* values of the two color pickers
    cache,                  \* localStorage entry SCOREBOARD_STORAGE_KEY
    posted,                 \* submissions issued by the most recent handler
    editing,                \* the team-name element holding focus, or "none"
    ops,                    \* pointer, change and focus events so far
    last,                   \* the most recent event handled
    dropped,                \* redo entries the most recent handler discarded
    act,                    \* the most recent event that pushed a snapshot, or the
                            \* focus that began an edit with no listener registered
    chain,                  \* 1 when `act` has just committed, 2 after an undo right
                            \* after it, 3 after a redo right after that undo, else 0
    pre, post,              \* serialized state just before and just after `act`
    inflight,               \* bag of the submissions fetch() has sent that have had
                            \* no response yet, one copy per request
    remote,                 \* scoreboard.xml as the runs of upload.php have left it,
                            \* if any has opened it
    writers,                \* bag of the requests for which upload.php has opened
                            \* scoreboard.xml and not yet closed it, each with the
                            \* offset its handle stands at
    faults                  \* what has gone wrong at the endpoint so far: "open" (an
                            \* open failed), "cut" (a write stopped short), "overlap"
                            \* (the file was opened while another request had it open)

vars == <<phase, scoreboard, undoable_scoreboards, redoable_scoreboards,
          current_position, position_style, undo_class, redo_class, picker,
          cache, posted, editing, ops, last, dropped, act, chain, pre, post,
          inflight, remote, writers, faults>>

\* An event as its handler reads it; `stored` is what the store the handler
\* reads (localStorage for the load, scoreboard.xml for upload.php) held when it
\* started, `status` the HTTP status upload.php answers with.
Evt(type, id, confirm) ==
    [type |-> type, id |-> id, confirm |-> confirm,
     clientX |-> 2, clientY |-> 2, rect |-> CHOOSE r \in Rects : TRUE,
     value |-> <<>>, stored |-> <<>>, status |-> 0]

USERNAME == "default"

\* localStorage without an entry under SCOREBOARD_STORAGE_KEY (getItem gives null),
\* and with the entry `text`.
NoItem == <<>>

Item(text) == <<text>>

TOKEN == "SET_BY_SERVER"

\* The form data upload() posts to upload.php.
FormData(el) ==
    [filedata |-> Serialize(el), filename |-> "scoreboard.xml", token |-> TOKEN]

PositionKeys == <<"top", "bottom", "left", "right">>

RECURSIVE StyleFrom(_, _)
\* The `for (p in current_position)` loop from key index i on.
StyleFrom(pos, i) ==
    IF i > Len(PositionKeys) THEN <<>>
    ELSE (IF pos[PositionKeys[i]] # null
          THEN <<<<PositionKeys[i], pos[PositionKeys[i]]>>>>
          ELSE <<>>) \o StyleFrom(pos, i + 1)

\* The style text built from the position descriptor, one <<property, value>> per
\* declaration "property:value;".
StyleOf(pos) == StyleFrom(pos, 1)

\* getComputedStyle(scoreboard).getPropertyValue(p): a length for an inset the
\* inline style sets to 0, else what the style sheet and layout give; never null.
ComputedInset(el, p, unset) ==
    IF \E i \in 1..Len(el.style) : el.style[i][1] = p THEN "0px" ELSE unset

\* current_position as get_position leaves it.
get_position(el, unset) ==
    [p \in {"top", "bottom", "left", "right"} |-> ComputedInset(el, p, unset)]

\* The picker values as update_colors leaves them.
update_colors(el) ==
    [home |-> rgba2hex(Groups(el.home_color)),
     away |-> rgba2hex(Groups(el.away_color))]

\* add_scoreboard_listeners: handlers bound to the current elements.
add_scoreboard_listeners(el) == [el EXCEPT !.bound = TRUE]

\* The wiring in the finally callback of load_initial_scoreboard(): it runs once
\* the load has settled, whatever its outcome, on the element then in place.
WireAfterLoad(el) == add_scoreboard_listeners(el)

\* save_state without `redoable_scoreboards.length = 0`.
save_stateKeepsRedo(clear, undoable, redoable, el) ==
    [undoable |-> Append(IF clear = TRUE THEN <<>> ELSE undoable, Serialize(el)),
     redoable |-> redoable,
     undo_class |-> TRUE,
     redo_class |-> FALSE]

\* The two stacks and the button classes as save_state(clear) leaves them.
save_state(clear, undoable, redoable, el) ==
    [undoable |-> Append(IF clear = TRUE THEN <<>> ELSE undoable, Serialize(el)),
     redoable |-> <<>>,
     undo_class |-> TRUE,
     redo_class |-> FALSE]

\* The confirmation's answer ignored.
ConfirmedAlways(answer) == TRUE

\* `confirm(...) == true` in reset and set_position.
Confirmed(answer) == answer = TRUE

\* The next-set confirmation's answer ignored.
NextSetConfirmedAlways(answer) == TRUE

\* `confirm('Start next set at 0-0?') == true` in score.
NextSetConfirmed(answer) == answer = TRUE

\* The page at its 'load' event, with `spent` events of the budget used up.
Start(spent) ==
    /\ phase = "loading"
    /\ scoreboard = DefaultScoreboard
    /\ undoable_scoreboards = <<>>
    /\ redoable_scoreboards = <<>>
    /\ current_position = [top |-> "0", bottom |-> null, left |-> null, right |-> "0"]
    /\ position_style = <<>>
    /\ undo_class = FALSE
    /\ redo_class = FALSE
    /\ picker = [home |-> "#000000", away |-> "#000000"]
    /\ cache \in {NoItem} \cup {Item(t) : t \in StoredSnapshots}
    /\ posted = <<>>
    /\ editing = "none"
    /\ ops = spent
    /\ last = Evt("init", "", FALSE)
    /\ dropped = 0
    /\ act = Evt("init", "", FALSE)
    /\ chain = 0
    /\ pre = Serialize(DefaultScoreboard)
    /\ post = Serialize(DefaultScoreboard)
    /\ inflight = EmptyBag
    /\ remote = NoItem
    /\ writers = EmptyBag
    /\ faults = {}

Init == Start(0)

(* ------------------------------ start-up ------------------------------- *)

\* What the GET of scoreboard.xml can yield: a rejected fetch() or text(), a
\* non-ok status, an empty body, a body without a #scoreboard element, or a
\* stored snapshot.
ResponseKinds == {"error", "not_ok", "empty", "no_scoreboard", "doc"}

\* The outcomes known when `await fetch` resumes (it throws, or response.ok is
\* false) and those known when `await response.text()` resumes (it throws, or
\* the body is there).
SettledAt(p) ==
    IF p = "loading" THEN {"error", "not_ok"}
    ELSE {"error", "empty", "no_scoreboard", "doc"}

\* The cached snapshot tried first, the remote one only without a cache entry.
AdoptedCacheFirst(kind, text, stored) ==
    IF stored # NoItem THEN stored
    ELSE IF kind = "doc" THEN Item(text) ELSE NoItem

\* The snapshot load_initial_scoreboard adopts, if any: the remote body when the
\* GET yields a document with a #scoreboard element, else the cache entry.
Adopted(kind, text, stored) ==
    IF kind = "doc" THEN Item(text) ELSE stored

\* The response to the GET arrives with an ok status: load_initial_scoreboard
\* resumes from `await fetch`, passes `if (response.ok)` and suspends again at
\* `await response.text()`, back in the event loop with no listener registered.
response_ok ==
    /\ phase = "loading"
    /\ phase' = "reading"
    /\ last' = Evt("response", "ok", FALSE)
    /\ posted' = <<>>
    /\ dropped' = 0
    /\ chain' = 0
    /\ UNCHANGED <<scoreboard, undoable_scoreboards, redoable_scoreboards,
                   current_position, position_style, undo_class, redo_class, picker,
                   cache, editing, ops, act, pre, post, inflight, remote, writers, faults>>

\* The last resumption of load_initial_scoreboard: from `await fetch` when it
\* throws or the status is not ok, else from `await response.text()`. It runs
\* to its end, and its finally callback, a microtask of the same task, wires the
\* handlers. replaceWith takes the focused team name out of the document.
load_initial_scoreboard ==
    /\ phase \in {"loading", "reading"}
    /\ \E kind \in SettledAt(phase), text \in StoredSnapshots, unset \in UnsetComputed :
        LET adopted == Adopted(kind, text, cache)
        IN /\ kind # "doc" => text = CHOOSE t \in StoredSnapshots : TRUE
           /\ last' = [Evt("load", kind, FALSE) EXCEPT !.value = text, !.stored = cache]
           /\ cache' = IF kind = "doc" THEN Item(text) ELSE cache
           /\ IF adopted # NoItem
              THEN /\ scoreboard' = WireAfterLoad(Parse(adopted[1]))
                   /\ current_position' = get_position(Parse(adopted[1]), unset)
                   /\ position_style' = StyleOf(get_position(Parse(adopted[1]), unset))
                   /\ picker' = update_colors(Parse(adopted[1]))
                   /\ editing' = "none"
              ELSE /\ scoreboard' = WireAfterLoad(scoreboard)
                   /\ unset = CHOOSE u \in UnsetComputed : TRUE
                   /\ UNCHANGED <<current_position, position_style, picker, editing>>
    /\ phase' = "ready"
    /\ posted' = <<>>
    /\ dropped' = 0
    /\ chain' = 0
    /\ UNCHANGED <<undoable_scoreboards, redoable_scoreboards, undo_class, redo_class,
                   ops, act, pre, post, inflight, remote, writers, faults>>

(* --------------------------- state transformers ------------------------ *)

\* The counter stored without clamping.
ClampNone(n) == n

\* `score = score < 0 ? score = 0 : score`
Clamp(n) == IF n < 0 THEN 0 ELSE n

\* The 'serving' class added to `side` and not removed from the other side.
ServeAddOnly(el, side) == [el EXCEPT ![side \o "_serve"] = TRUE]

\* The 'serving' class moved to `side`: added there, removed from the other side.
Serve(el, side) ==
    [el EXCEPT !.home_serve = (side = "home"), !.away_serve = (side = "away")]

\* score(evt) zeroing both scores on every change of a set counter, with no
\* look at the action or at the confirmation.
ScoredZeroesOnSetChange(el, id, answer) ==
    LET counter == CounterOf(id)
        n0 == parseInt(el[counter])
        n1 == IF ActionOf(id) = "plus" THEN n0 + 1 ELSE n0 - 1
        zeroed == IF counter \in {"home_set", "away_set"}
                  THEN [el EXCEPT !.home_score = toText(0), !.away_score = toText(0)]
                  ELSE el
        served == IF id = "home_score_plus" THEN Serve(zeroed, "home")
                  ELSE IF id = "away_score_plus" THEN Serve(zeroed, "away")
                  ELSE zeroed
    IN [served EXCEPT ![counter] = toText(Clamp(n1))]

\* The #scoreboard element as score(evt) leaves it; `answer` is the answer to
\* 'Start next set at 0-0?', asked only for a set counter's plus button.
Scored(el, id, answer) ==
    LET counter == CounterOf(id)
        action == ActionOf(id)
        n0 == parseInt(el[counter])
        n1 == IF action = "plus" THEN n0 + 1 ELSE n0 - 1
        n2 == Clamp(n1)
        zeroed == IF /\ counter \in {"home_set", "away_set"}
                     /\ action = "plus"
                     /\ NextSetConfirmed(answer)
                  THEN [el EXCEPT !.home_score = toText(0), !.away_score = toText(0)]
                  ELSE el
        served == IF id = "home_score_plus" THEN Serve(zeroed, "home")
                  ELSE IF id = "away_score_plus" THEN Serve(zeroed, "away")
                  ELSE zeroed
    IN [served EXCEPT ![counter] = toText(n2)]

\* toggle_serve testing the away marker: serve to home if away serves, else to away.
ToggledByAway(el) == IF el.away_serve THEN Serve(el, "home") ELSE Serve(el, "away")

\* The #scoreboard element as toggle_serve leaves it.
Toggled(el) == IF el.home_serve THEN Serve(el, "away") ELSE Serve(el, "home")

\* The #scoreboard element as set_color leaves it.
Colored(el, side, value) == [el EXCEPT ![side \o "_color"] = value]

\* reset zeroing the counters and also taking the 'serving' class off both sides.
ZeroedClearsServe(el) ==
    [el EXCEPT !.home_set = toText(0), !.away_set = toText(0),
               !.home_score = toText(0), !.away_score = toText(0),
               !.home_serve = FALSE, !.away_serve = FALSE]

\* The #scoreboard element as reset leaves it.
Zeroed(el) ==
    [el EXCEPT !.home_set = toText(0), !.away_set = toText(0),
               !.home_score = toText(0), !.away_score = toText(0)]

\* upload() without its localStorage.setItem: no cache entry written.
uploadSkipsCache(el) == NoItem

\* The local cache entry after upload().
upload(el) == Item(Serialize(el))

\* reset with removeItem run before upload(), or not at all.
CacheAfterResetKept(el) == upload(el)

\* The local cache entry after reset's upload() followed by removeItem.
CacheAfterReset(el) == NoItem

\* `x_perc >= 0.5`.
PastMidpointInclusive(client, origin, extent) == 2 * (client - origin) >= extent

\* `x_perc > 0.5` for x_perc = (client - origin) / extent.
PastMidpoint(client, origin, extent) == 2 * (client - origin) > extent

\* current_position as a confirmed set_position leaves it.
Positioned(pos, evt) ==
    LET x == IF PastMidpoint(evt.clientX, evt.rect.x, evt.rect.width)
             THEN [pos EXCEPT !.left = null, !.right = "0"]
             ELSE [pos EXCEPT !.left = "0", !.right = null]
    IN IF PastMidpoint(evt.clientY, evt.rect.y, evt.rect.height)
       THEN [x EXCEPT !.top = null, !.bottom = "0"]
       ELSE [x EXCEPT !.top = "0", !.bottom = null]

(* ------------------------------ handlers ------------------------------- *)

\* The page taking no event while a submission is pending.
ReadyNoPending == phase = "ready" /\ scoreboard.bound /\ inflight = EmptyBag

\* The listeners are registered: the finally callback of the load has run, and
\* the elements of the current #scoreboard carry theirs. No handler looks at
\* the focus, so each runs whether or not a team name is being edited.
Ready == phase = "ready" /\ scoreboard.bound

\* One more pointer, change or focus event, recorded as `evt`.
Handle(evt) ==
    /\ ops < MaxOps
    /\ ops' = ops + 1
    /\ last' = evt
    /\ UNCHANGED <<remote, writers, faults>>

\* fetch(url, {method: 'POST', body: data}): one more request is sent and not
\* awaited, whatever is pending already.
fetch(pending, data) == pending (+) SetToBag({data})

\* save_state(clear) run by the handler of `evt`.
Saved(clear, evt) ==
    LET s == save_state(clear, undoable_scoreboards, redoable_scoreboards, scoreboard)
    IN /\ undoable_scoreboards' = s.undoable
       /\ redoable_scoreboards' = s.redoable
       /\ undo_class' = s.undo_class
       /\ redo_class' = s.redo_class
       /\ dropped' = Len(redoable_scoreboards)
       /\ act' = evt
       /\ pre' = Serialize(scoreboard)

\* A handler completing with its mutation but with no fetch in upload().
CommittedNoSubmit(after) ==
    /\ scoreboard' = after
    /\ posted' = <<>>
    /\ inflight' = inflight
    /\ chain' = 1
    /\ post' = Serialize(after)

\* The mutation and the submission of upload() that complete a handler.
Committed(after) ==
    /\ scoreboard' = after
    /\ posted' = <<FormData(after)>>
    /\ inflight' = fetch(inflight, FormData(after))
    /\ chain' = 1
    /\ post' = Serialize(after)

score ==
    /\ Ready
    /\ \E id \in ButtonIds, answer \in BOOLEAN :
        /\ answer => id \in {"home_set_plus", "away_set_plus"}
        /\ Handle(Evt("score", id, answer))
        /\ Saved(FALSE, Evt("score", id, answer))
        /\ Committed(Scored(scoreboard, id, answer))
        /\ cache' = upload(Scored(scoreboard, id, answer))
    /\ UNCHANGED <<phase, current_position, position_style, picker, editing>>

toggle_serve ==
    /\ Ready
    /\ \E id \in {"home_serve", "away_serve"} :
        /\ Handle(Evt("toggle_serve", id, FALSE))
        /\ Saved(FALSE, Evt("toggle_serve", id, FALSE))
    /\ Committed(Toggled(scoreboard))
    /\ cache' = upload(Toggled(scoreboard))
    /\ UNCHANGED <<phase, current_position, position_style, picker, editing>>

\* pick_color: c is the rendered background of the clicked element (the team
\* color for a color element, whatever the style sheet gives for a set counter).
\* picker.focus() takes the focus from a team name being edited, whose blur
\* listener (update_team) then runs before the picker's value is set.
pick_color ==
    /\ Ready
    /\ \E id \in {"home_color", "away_color", "home_set", "away_set"}, c \in Colors :
        LET side == IF id \in {"home_color", "home_set"} THEN "home" ELSE "away"
        IN /\ id = "home_color" => c = scoreboard.home_color
           /\ id = "away_color" => c = scoreboard.away_color
           /\ picker' = [picker EXCEPT ![side] = rgba2hex(Groups(c))]
           /\ Handle([Evt("pick_color", id, FALSE) EXCEPT !.value = c])
    /\ IF editing # "none"
       THEN /\ Committed(scoreboard)
            /\ cache' = upload(scoreboard)
       ELSE /\ posted' = <<>>
            /\ chain' = 0
            /\ UNCHANGED <<scoreboard, cache, post, inflight>>
    /\ editing' = "none"
    /\ dropped' = 0
    /\ UNCHANGED <<phase, undoable_scoreboards, redoable_scoreboards,
                   current_position, position_style, undo_class, redo_class,
                   act, pre>>

\* The change event of a picker whose value the user set to the hex text of c.
set_color ==
    /\ Ready
    /\ \E side \in Sides, c \in Colors :
        LET evt == [Evt("set_color", side \o "_color_picker", FALSE) EXCEPT !.value = c]
        IN /\ picker' = [picker EXCEPT ![side] = rgba2hex(Groups(c))]
           /\ Handle(evt)
           /\ Saved(FALSE, evt)
           /\ Committed(Colored(scoreboard, side, c))
           /\ cache' = upload(Colored(scoreboard, side, c))
    /\ UNCHANGED <<phase, current_position, position_style, editing>>

\* focus on a team name before its listeners are registered: the element takes
\* the focus and no handler runs.
focus_team ==
    /\ ~scoreboard.bound
    /\ editing = "none"
    /\ \E side \in Sides :
        /\ editing' = side
        /\ Handle(Evt("focus", side \o "_team", FALSE))
        /\ act' = Evt("focus", side \o "_team", FALSE)
    /\ pre' = Serialize(scoreboard)
    /\ posted' = <<>>
    /\ dropped' = 0
    /\ chain' = 0
    /\ UNCHANGED <<phase, scoreboard, undoable_scoreboards, redoable_scoreboards,
                   current_position, position_style, undo_class, redo_class, picker,
                   cache, post, inflight>>

\* blur of the focused team name before its listeners are registered.
blur_team ==
    /\ ~scoreboard.bound
    /\ editing # "none"
    /\ editing' = "none"
    /\ last' = Evt("blur", editing \o "_team", FALSE)
    /\ posted' = <<>>
    /\ dropped' = 0
    /\ chain' = 0
    /\ UNCHANGED <<phase, scoreboard, undoable_scoreboards, redoable_scoreboards,
                   current_position, position_style, undo_class, redo_class, picker,
                   cache, ops, act, pre, post, inflight, remote, writers, faults>>

\* focus on a team name (no element has it yet): save_state(false) and nothing else.
save_team ==
    /\ Ready
    /\ editing = "none"
    /\ \E side \in Sides :
        /\ editing' = side
        /\ Handle(Evt("save_team", side \o "_team", FALSE))
        /\ Saved(FALSE, Evt("save_team", side \o "_team", FALSE))
    /\ posted' = <<>>
    /\ chain' = 0
    /\ UNCHANGED <<phase, scoreboard, current_position, position_style, picker,
                   cache, post, inflight>>

\* Typing in the focused team name: the element's text changes, no handler runs.
keystroke ==
    /\ editing # "none"
    /\ \E name \in TeamNames :
        /\ name # scoreboard[editing \o "_team"]
        /\ scoreboard' = [scoreboard EXCEPT ![editing \o "_team"] = name]
        /\ last' = [Evt("keystroke", editing \o "_team", FALSE) EXCEPT !.value = name]
    /\ posted' = <<>>
    /\ dropped' = 0
    /\ chain' = 0
    /\ UNCHANGED <<phase, undoable_scoreboards, redoable_scoreboards, current_position,
                   position_style, undo_class, redo_class, picker, cache, editing,
                   ops, act, pre, post, inflight, remote, writers, faults>>

\* blur of the focused team name: upload() and nothing else.
update_team ==
    /\ Ready
    /\ editing # "none"
    /\ cache' = upload(scoreboard)
    /\ posted' = <<FormData(scoreboard)>>
    /\ inflight' = fetch(inflight, FormData(scoreboard))
    /\ editing' = "none"
    /\ last' = Evt("update_team", editing \o "_team", FALSE)
    /\ dropped' = 0
    /\ chain' = 1
    /\ post' = Serialize(scoreboard)
    /\ UNCHANGED <<phase, scoreboard, undoable_scoreboards, redoable_scoreboards,
                   current_position, position_style, undo_class, redo_class, picker,
                   ops, act, pre, remote, writers, faults>>

\* A handler run that changes nothing but still ends with upload().
NothingButUpload(evt) ==
    /\ Handle(evt)
    /\ cache' = upload(scoreboard)
    /\ posted' = <<FormData(scoreboard)>>
    /\ inflight' = fetch(inflight, FormData(scoreboard))
    /\ dropped' = 0
    /\ UNCHANGED <<phase, scoreboard, undoable_scoreboards, redoable_scoreboards,
                   current_position, position_style, undo_class, redo_class, picker,
                   editing, act, pre, post>>

\* A handler run that returns without doing anything.
Nothing(evt) ==
    /\ Handle(evt)
    /\ posted' = <<>>
    /\ dropped' = 0
    /\ UNCHANGED <<phase, scoreboard, undoable_scoreboards, redoable_scoreboards,
                   current_position, position_style, undo_class, redo_class, picker,
                   cache, editing, act, pre, post, inflight>>

reset ==
    /\ Ready
    /\ \E answer \in BOOLEAN :
        IF Confirmed(answer)
        THEN /\ Handle(Evt("reset", "reset", answer))
             /\ Saved(TRUE, Evt("reset", "reset", answer))
             /\ Committed(Zeroed(scoreboard))
             /\ cache' = CacheAfterReset(Zeroed(scoreboard))
             /\ UNCHANGED <<phase, current_position, position_style, picker, editing>>
        ELSE Nothing(Evt("reset", "reset", answer)) /\ chain' = 0

set_position ==
    /\ Ready
    /\ \E answer \in BOOLEAN, rect \in Rects, clientX \in Coords, clientY \in Coords :
        LET evt == [Evt("set_position", "screen", answer) EXCEPT
                       !.rect = rect, !.clientX = clientX, !.clientY = clientY]
            pos == Positioned(current_position, evt)
        IN IF Confirmed(answer)
           THEN /\ Handle(evt)
                /\ Saved(TRUE, evt)
                /\ current_position' = pos
                /\ position_style' = StyleOf(pos)
                /\ Committed([scoreboard EXCEPT !.style = StyleOf(pos)])
                /\ cache' = upload([scoreboard EXCEPT !.style = StyleOf(pos)])
                /\ UNCHANGED <<phase, picker, editing>>
           ELSE \* the pointer is not read when the prompt is declined
                /\ clientX = 2 /\ clientY = 2
                /\ Nothing(evt)
                /\ chain' = 0

\* An effective undo or redo without its add_scoreboard_listeners() call.
RestoreUnwired(evt, last_scoreboard, unset) ==
    LET el == Parse(last_scoreboard)
    IN /\ Handle(evt)
       /\ scoreboard' = el
       /\ current_position' = get_position(el, unset)
       /\ position_style' = StyleOf(get_position(el, unset))
       /\ picker' = update_colors(el)
       /\ cache' = upload(el)
       /\ posted' = <<FormData(el)>>
       /\ inflight' = fetch(inflight, FormData(el))
       /\ editing' = "none"
       /\ dropped' = 0
       /\ UNCHANGED <<phase, act, pre, post>>

\* The element and derived state after an effective undo or redo restores the
\* snapshot `last_scoreboard`; replaceWith takes the element it replaces, and
\* with it a team name being edited, out of the document.
Restore(evt, last_scoreboard, unset) ==
    LET el == Parse(last_scoreboard)
    IN /\ Handle(evt)
       /\ scoreboard' = add_scoreboard_listeners(el)
       /\ current_position' = get_position(el, unset)
       /\ position_style' = StyleOf(get_position(el, unset))
       /\ picker' = update_colors(el)
       /\ cache' = upload(el)
       /\ posted' = <<FormData(el)>>
       /\ inflight' = fetch(inflight, FormData(el))
       /\ editing' = "none"
       /\ dropped' = 0
       /\ UNCHANGED <<phase, act, pre, post>>

undo ==
    /\ Ready
    /\ IF Len(undoable_scoreboards) > 0
       THEN \E unset \in UnsetComputed :
            /\ Restore(Evt("undo", "undo", TRUE),
                       undoable_scoreboards[Len(undoable_scoreboards)], unset)
            /\ undoable_scoreboards' =
                   SubSeq(undoable_scoreboards, 1, Len(undoable_scoreboards) - 1)
            /\ redoable_scoreboards' =
                   Append(redoable_scoreboards, Serialize(scoreboard))
            /\ redo_class' = TRUE
            /\ undo_class' = IF Len(undoable_scoreboards) = 1 THEN FALSE ELSE undo_class
       ELSE Nothing(Evt("undo", "undo", FALSE))
    /\ chain' = IF chain = 1 THEN 2 ELSE 0

\* redo without the push of the current state onto undoable_scoreboards.
redoWithoutPush ==
    /\ Ready
    /\ IF Len(redoable_scoreboards) > 0
       THEN \E unset \in UnsetComputed :
            /\ Restore(Evt("redo", "redo", TRUE),
                       redoable_scoreboards[Len(redoable_scoreboards)], unset)
            /\ redoable_scoreboards' =
                   SubSeq(redoable_scoreboards, 1, Len(redoable_scoreboards) - 1)
            /\ undoable_scoreboards' = undoable_scoreboards
            /\ undo_class' = TRUE
            /\ redo_class' = IF Len(redoable_scoreboards) = 1 THEN FALSE ELSE redo_class
       ELSE Nothing(Evt("redo", "redo", FALSE))
    /\ chain' = IF chain = 2 THEN 3 ELSE 0

redo ==
    /\ Ready
    /\ IF Len(redoable_scoreboards) > 0
       THEN \E unset \in UnsetComputed :
            /\ Restore(Evt("redo", "redo", TRUE),
                       redoable_scoreboards[Len(redoable_scoreboards)], unset)
            /\ redoable_scoreboards' =
                   SubSeq(redoable_scoreboards, 1, Len(redoable_scoreboards) - 1)
            /\ undoable_scoreboards' =
                   Append(undoable_scoreboards, Serialize(scoreboard))
            /\ undo_class' = TRUE
            /\ redo_class' = IF Len(redoable_scoreboards) = 1 THEN FALSE ELSE redo_class
       ELSE Nothing(Evt("redo", "redo", FALSE))
    /\ chain' = IF chain = 2 THEN 3 ELSE 0

Next ==
    \/ response_ok
    \/ load_initial_scoreboard
    \/ score
    \/ toggle_serve
    \/ pick_color
    \/ set_color
    \/ focus_team
    \/ blur_team
    \/ save_team
    \/ keystroke
    \/ update_team
    \/ reset
    \/ set_position
    \/ undo
    \/ redo

Spec == Init /\ [][Next]_vars

(* --------------------------- remote endpoint --------------------------- *)

\* $TOKEN as upload.php ships.
PHP_TOKEN == "your_secure_token_here"

\* Values the operator has set $TOKEN to when a request arrives: the shipped
\* one, or the one the page sends.
ConfiguredTokens == {PHP_TOKEN, TOKEN}

\* isset($_POST[k])
isset(data, k) == k \in DOMAIN data

\* upload.php without its check of $_POST['filename'].
upload_phpAnyFilename(data, token) ==
    IF ~isset(data, "token") \/ data.token # token THEN 403
    ELSE IF ~isset(data, "filedata") THEN 400
    ELSE 200

\* The status upload.php answers the form fields `data` with when $TOKEN is
\* `token`; only on 200 does it get to file_put_contents.
upload_php(data, token) ==
    IF ~isset(data, "token") \/ data.token # token THEN 403
    ELSE IF ~isset(data, "filename") \/ data.filename # "scoreboard.xml" THEN 403
    ELSE IF ~isset(data, "filedata") THEN 400
    ELSE 200

\* Characters of a declaration "property:value;" of an inline style.
RECURSIVE StyleLength(_)
StyleLength(style) ==
    IF style = <<>> THEN 0
    ELSE Len(Head(style)[1]) + Len(Head(style)[2]) + 2 + StyleLength(Tail(style))

\* Digits of the channels of a color.
RECURSIVE ColorLength(_)
ColorLength(c) ==
    IF c = <<>> THEN 0 ELSE Len(toText(Head(c))) + ColorLength(Tail(c))

\* Length of the serialized markup `text`, counted from the parts that vary
\* from one snapshot to the next: counter and team texts, the 'serving' class,
\* the colors and the inline style. The other characters are the same in all.
Length(text) ==
    Len(text.home_score) + Len(text.away_score)
    + Len(text.home_set) + Len(text.away_set)
    + Len(text.home_team) + Len(text.away_team)
    + (IF text.home_serve THEN Len("serving") ELSE 0)
    + (IF text.away_serve THEN Len("serving") ELSE 0)
    + ColorLength(text.home_color) + ColorLength(text.away_color)
    + StyleLength(text.style)

\* Characters no write has put where they are: what a file reads as below the
\* offset of a write that started past its end.
NUL == [nul |-> TRUE]

\* File contents: the pieces the file is made of, front to back, each reaching
\* up to offset `upto` from where the piece before it ends and holding there the
\* characters of one submitted text, or NUL. A request writes its text from
\* offset 0 on, so a character at some offset of the file sits at the same
\* offset of the text it came from.
Whole(text) == <<[text |-> text, upto |-> Length(text)]>>

\* fopen(name, 'w'): the file is created or truncated to no content.
fopen(file) == Item(<<>>)

RECURSIVE Before(_, _)
\* What `pieces` hold in front of offset `at`, filled up with NUL where they end
\* before it.
Before(pieces, at) ==
    IF at = 0 THEN <<>>
    ELSE IF pieces = <<>> THEN <<[text |-> NUL, upto |-> at]>>
    ELSE IF Head(pieces).upto >= at THEN <<[Head(pieces) EXCEPT !.upto = at]>>
    ELSE <<Head(pieces)>> \o Before(Tail(pieces), at)

RECURSIVE Joined(_)
\* Neighbouring pieces of the same text written as one piece.
Joined(pieces) ==
    IF Len(pieces) < 2 THEN pieces
    ELSE IF pieces[1].text = pieces[2].text THEN Joined(Tail(pieces))
    ELSE <<pieces[1]>> \o Joined(Tail(pieces))

\* One write call through a handle standing at offset `at`, putting the
\* characters of `text` from there up to offset n into the file: they replace
\* what the file holds there, the rest stays.
fwrite(file, text, at, n) ==
    LET Beyond(piece) == piece.upto > n
    IN IF n > at
       THEN Item(Joined(Before(file[1], at) \o <<[text |-> text, upto |-> n]>>
                        \o SelectSeq(file[1], Beyond)))
       ELSE file

\* Where the handle of a request writing `text` can stand after one more write
\* call from offset `at`: at the end of the text, short of it (no space left,
\* quota), or still at `at` when the call fails. Of the offsets short of the
\* end these are tried: CutShort (less than any text has) and the last
\* character.
Written(text, at) ==
    {at, Length(text)}
    \cup {n \in {CutShort, Length(text) - 1} : at < n /\ n < Length(text)}

\* What a run of file_put_contents adds to the faults: `opens` and n as below.
Faulty(text, opens, n) ==
    IF ~opens THEN {"open"} ELSE IF n < Length(text) THEN {"cut"} ELSE {}

\* file_put_contents(name, text) run with no other writer: the open fails and
\* leaves the file alone, or truncates it and the write calls of its loop get
\* the first n characters written.
file_put_contents(file, text, opens, n) ==
    IF opens THEN fwrite(fopen(file), text, 0, n) ELSE file

\* The request a writer of the file is handling.
Request(w) == w.data

\* What a response or a failure of a submission leaves alone: the controller.
controller == <<phase, scoreboard, undoable_scoreboards, redoable_scoreboards,
                current_position, position_style, undo_class, redo_class, picker,
                cache, posted, editing, ops, dropped, act, chain, pre, post>>

\* upload.php starts on a pending request whose checks `status` sums up: when
\* one fails it answers with the error; when all pass it calls
\* file_put_contents, whose fopen truncates scoreboard.xml, unlocked, whoever
\* else is writing it, or fails, and then 'OK' is answered with nothing written.
Arrive(data, status, opens) ==
    /\ CopiesIn(data, inflight) > CopiesIn(data, BagOfAll(Request, writers))
    /\ IF status = 200 /\ opens
       THEN /\ remote' = fopen(remote)
            /\ writers' = writers (+) SetToBag({[data |-> data, at |-> 0]})
            /\ faults' = faults \cup (IF writers # EmptyBag THEN {"overlap"} ELSE {})
            /\ UNCHANGED inflight
       ELSE /\ inflight' = inflight (-) SetToBag({data})
            /\ faults' = faults \cup (IF status = 200 THEN {"open"} ELSE {})
            /\ UNCHANGED <<remote, writers>>
    /\ UNCHANGED <<controller, last>>

\* One pending request reaches upload.php, which runs up to the fopen of
\* file_put_contents, other requests being handled at the same time.
deliver ==
    \E data \in BagToSet(inflight), token \in ConfiguredTokens, opens \in BOOLEAN :
        Arrive(data, upload_php(data, token), opens)

\* file_put_contents goes on for a request that has opened the file, other
\* requests being handled between its steps: one more write call of its loop
\* puts characters of filedata at the offset its handle stands at. When the
\* call stops short the loop goes on from there; when it reaches the end of
\* filedata or fails, the file is closed, the result is ignored, 'OK' is
\* answered, and the promise fetch() returned settles with no callback.
write ==
    /\ \E w \in BagToSet(writers) : \E n \in Written(w.data.filedata, w.at) :
        /\ remote' = fwrite(remote, w.data.filedata, w.at, n)
        /\ IF w.at < n /\ n < Length(w.data.filedata)
           THEN /\ writers' = (writers (-) SetToBag({w}))
                                  (+) SetToBag({[w EXCEPT !.at = n]})
                /\ UNCHANGED <<inflight, faults>>
           ELSE /\ writers' = writers (-) SetToBag({w})
                /\ inflight' = inflight (-) SetToBag({w.data})
                /\ faults' = faults \cup Faulty(w.data.filedata, TRUE, n)
    /\ UNCHANGED <<controller, last>>

\* A pending submission fails on the way to upload.php: the promise rejects,
\* unhandled.
network_error ==
    /\ \E data \in BagToSet(inflight) :
        /\ CopiesIn(data, inflight) > CopiesIn(data, BagOfAll(Request, writers))
        /\ inflight' = inflight (-) SetToBag({data})
    /\ UNCHANGED <<controller, last, remote, writers, faults>>

\* The controller together with the endpoint its submissions go to; a submission
\* that never completes stays in `inflight`.
NetNext ==
    \/ response_ok
    \/ load_initial_scoreboard
    \/ score
    \/ toggle_serve
    \/ pick_color
    \/ set_color
    \/ focus_team
    \/ blur_team
    \/ save_team
    \/ keystroke
    \/ update_team
    \/ reset
    \/ set_position
    \/ undo
    \/ redo
    \/ deliver
    \/ write
    \/ network_error

NetSpec == Start(MaxOps - NetOps) /\ [][NetNext]_vars

\* A pending submission reaches an upload.php whose $TOKEN is the one the page
\* sends: its checks pass, and it will be answered 'OK'.
accept ==
    \E data \in BagToSet(inflight), opens \in BOOLEAN :
        /\ upload_php(data, TOKEN) = 200
        /\ Arrive(data, upload_php(data, TOKEN), opens)

\* The controller with an endpoint that every submission reaches, in any order
\* (the requests are not awaited), and that accepts every one of them.
OrderNext ==
    \/ response_ok
    \/ load_initial_scoreboard
    \/ score
    \/ toggle_serve
    \/ pick_color
    \/ set_color
    \/ focus_team
    \/ blur_team
    \/ save_team
    \/ keystroke
    \/ update_team
    \/ reset
    \/ set_position
    \/ undo
    \/ redo
    \/ accept
    \/ write

OrderSpec == Start(MaxOps - NetOps) /\ [][OrderNext]_vars

(* ------------------------- rgba2hex on its own ------------------------- *)

\* Channel values and alpha values (in thousandths) of the rendered colors
\* rgba2hex is applied to.
Channels == {0, 7, 16, 128, 255}

Alphas == {0, 1, 100, 300, 500, 502, 700, 900, 999, 1000}

Rendered ==
    {<<r, g, b>> : r \in Channels, g \in Channels, b \in Channels}
    \cup {<<c[1], c[2], c[3], a>> : c \in Channels \X Channels \X Channels, a \in Alphas}

\* rgba2hex applied once to the computed background-color c; the result is kept
\* in the event's id.
convert ==
    /\ last.type = "init"
    /\ \E c \in Rendered :
        last' = [Evt("rgba2hex", rgba2hex(Groups(c)), FALSE) EXCEPT !.value = c]
    /\ UNCHANGED <<controller, inflight, remote, writers, faults>>

ColorNext == convert

ColorSpec == Init /\ [][ColorNext]_vars

(* ------------------------ the endpoint on its own ---------------------- *)

\* Elements whose submission by upload() is put to the endpoint.
Uploaded == {DefaultScoreboard} \cup {Parse(t) : t \in StoredSnapshots}

\* Form fields a request to upload.php may carry: any subset of token, filename
\* and filedata, with the page's token, the shipped one or a guess, the fixed
\* filename or another file of the directory. The submissions upload() builds
\* for the elements of Uploaded are among them.
Requests ==
    LET full == [token : {TOKEN, PHP_TOKEN, "guess"},
                 filename : {"scoreboard.xml", "users.json"},
                 filedata : {Serialize(el) : el \in Uploaded}]
    IN { [k \in D |-> f[k]] : f \in full, D \in SUBSET {"token", "filename", "filedata"} }

\* upload.php answering one request while it handles no other; `confirm` tells
\* whether file_put_contents wrote the whole of filedata.
post_request ==
    /\ \E data \in Requests, token \in ConfiguredTokens, opens \in BOOLEAN :
        LET status == upload_php(data, token)
        IN \E n \in (IF status = 200 /\ opens THEN Written(data.filedata, 0) ELSE {0}) :
            /\ status # 200 => opens
            /\ remote' = IF status = 200
                         THEN file_put_contents(remote, data.filedata, opens, n)
                         ELSE remote
            /\ last' = [Evt("upload.php", token,
                            status = 200 /\ opens /\ n = Length(data.filedata))
                           EXCEPT !.value = data, !.stored = remote, !.status = status]
            /\ faults' = faults \cup
                  (IF status = 200 THEN Faulty(data.filedata, opens, n) ELSE {})
    /\ UNCHANGED <<controller, inflight, writers>>

EndpointNext == post_request

EndpointSpec == Init /\ [][EndpointNext]_vars

(* ------------------------------ properties ----------------------------- *)

\* Events whose handler is an ordinary mutating action (one save_state(false)).
Ordinary(e) == e.type \in {"score", "toggle_serve", "set_color", "save_team"}

\* A confirmed reset or set_position.
Checkpoint(e) == e.type \in {"reset", "set_position"} /\ e.confirm

\* A declined reset or set_position.
Declined(e) == e.type \in {"reset", "set_position"} /\ ~e.confirm

\* A set counter's plus button with the next-set confirmation declined.
DeclinedSetAdvance(e) ==
    e.type = "score" /\ e.id \in {"home_set_plus", "away_set_plus"} /\ ~e.confirm

\* Exactly one of top/bottom and exactly one of left/right is set.
OneCorner(pos) ==
    /\ (pos.top = null) # (pos.bottom = null)
    /\ (pos.left = null) # (pos.right = null)

\* C1: an undo right after a committed ordinary action (score or set change,
\* toggle_serve, set_color, team-name edit from focus to blur, whether or not
\* the focus found its listener registered) restores exactly the serialized
\* state that held before the action, and a redo right after that undo restores
\* exactly the state that held after the action.
C1_UndoRedoRoundTrip ==
    (Ordinary(act) \/ act.type = "focus") =>
        /\ chain = 2 => Serialize(scoreboard) = pre
        /\ chain = 3 => Serialize(scoreboard) = post

\* C2: every mutating handler other than undo/redo leaves redoable empty, and
\* redoable becomes or stays non-empty across a stack change only by undo or redo.
C2_MutationClearsRedo ==
    [][ /\ (Ordinary(last') \/ Checkpoint(last')) => redoable_scoreboards' = <<>>
        /\ ( /\ redoable_scoreboards' # <<>>
             /\ \/ redoable_scoreboards' # redoable_scoreboards
                \/ undoable_scoreboards' # undoable_scoreboards )
           => last'.type \in {"undo", "redo"} ]_vars

C2_Witness ==
    /\ Ordinary(last) \/ Checkpoint(last)
    /\ dropped > 0
    /\ redoable_scoreboards = <<>>

\* C3: the four counters are never negative, and a decrement of a counter that
\* is 0 leaves it at 0.
C3_CountersNonNegative ==
    /\ \A c \in Counters : parseInt(scoreboard[c]) >= 0
    /\ ( /\ last.type = "score"
         /\ ActionOf(last.id) = "minus"
         /\ parseInt(pre[CounterOf(last.id)]) = 0 )
       => parseInt(scoreboard[CounterOf(last.id)]) = 0

C3_Witness ==
    /\ last.type = "score"
    /\ ActionOf(last.id) = "minus"
    /\ pre[CounterOf(last.id)] = "0"
    /\ scoreboard[CounterOf(last.id)] = "0"

\* C4: right after a score increment the serving side is exactly the side that
\* scored, and the two serve markers are never both set.
C4_ServeFollowsScore ==
    /\ ~(scoreboard.home_serve /\ scoreboard.away_serve)
    /\ (last.type = "score" /\ last.id = "home_score_plus")
       => scoreboard.home_serve /\ ~scoreboard.away_serve
    /\ (last.type = "score" /\ last.id = "away_score_plus")
       => scoreboard.away_serve /\ ~scoreboard.home_serve

C4_Witness ==
    /\ last.type = "score"
    /\ last.id = "away_score_plus"
    /\ pre.home_serve
    /\ scoreboard.away_serve
    /\ ~scoreboard.home_serve

\* C5: right after a confirmed reset or set_position the undoable stack is
\* empty, so the state before it cannot be recovered by undo.
C5_CheckpointEmptiesUndo == Checkpoint(last) => undoable_scoreboards = <<>>

\* C6: after a confirmed reset all four counters are 0 and the local cache
\* entry is absent.
C6_ResetZeroesAndPurges ==
    (last.type = "reset" /\ last.confirm) =>
        /\ \A c \in Counters : scoreboard[c] = "0"
        /\ cache = NoItem

C6_Witness ==
    /\ last.type = "reset"
    /\ last.confirm
    /\ ops = MaxOps
    /\ pre.home_score # "0"
    /\ pre.away_set # "0"

\* C7: a confirmed set_position anchors right exactly when the pointer is
\* strictly past the horizontal midpoint of the container's box, else left;
\* bottom exactly when strictly past the vertical midpoint, else top; exactly
\* one of left/right and one of top/bottom is then set.
C7_CornerFromPointer ==
    (last.type = "set_position" /\ last.confirm) =>
        LET right == 2 * last.clientX > 2 * last.rect.x + last.rect.width
            bottom == 2 * last.clientY > 2 * last.rect.y + last.rect.height
        IN /\ current_position.right = (IF right THEN "0" ELSE null)
           /\ current_position.left = (IF right THEN null ELSE "0")
           /\ current_position.bottom = (IF bottom THEN "0" ELSE null)
           /\ current_position.top = (IF bottom THEN null ELSE "0")
           /\ OneCorner(current_position)
           /\ position_style = StyleOf(current_position)
           /\ scoreboard.style = StyleOf(current_position)

C7_Witness ==
    /\ last.type = "set_position"
    /\ last.confirm
    /\ 2 * last.clientX = 2 * last.rect.x + last.rect.width
    /\ 2 * last.clientY > 2 * last.rect.y + last.rect.height
    /\ current_position.left = "0"
    /\ current_position.bottom = "0"

\* C8: in every state the position descriptor has exactly one of top/bottom and
\* exactly one of left/right set, also after undo, redo and the initial load.
C8_ExactlyOneCorner == OneCorner(current_position)

\* C9: a declined reset or set_position changes nothing and submits nothing.
C9_DeclineChangesNothing ==
    [][ Declined(last') =>
          /\ UNCHANGED <<scoreboard, current_position, position_style,
                         undoable_scoreboards, redoable_scoreboards, cache>>
          /\ posted' = <<>> ]_vars

C9_Witness ==
    /\ Declined(last)
    /\ redoable_scoreboards # <<>>
    /\ cache # NoItem

\* C10 as stated: a declined set-advance confirmation leaves the scoreboard
\* unchanged and pushes no snapshot.
C10_DeclinedSetAdvanceAborts ==
    [][ DeclinedSetAdvance(last') =>
          /\ scoreboard' = scoreboard
          /\ undoable_scoreboards' = undoable_scoreboards ]_vars

\* C10 as amended: a declined set-advance confirmation leaves both score
\* counters (and all else but the target set counter) unchanged, while the
\* target set counter is still raised by 1 and one snapshot of the state
\* before is pushed onto undoable.
C10_DeclinedSetAdvanceKeepsScores ==
    [][ DeclinedSetAdvance(last') =>
          /\ scoreboard' =
                [scoreboard EXCEPT ![CounterOf(last'.id)] = toText(parseInt(@) + 1)]
          /\ undoable_scoreboards' =
                Append(undoable_scoreboards, Serialize(scoreboard)) ]_vars

C10_Witness ==
    /\ DeclinedSetAdvance(last)
    /\ pre.home_score # "0"
    /\ scoreboard.home_score = pre.home_score
    /\ scoreboard[CounterOf(last.id)] = toText(parseInt(pre[CounterOf(last.id)]) + 1)

\* C11: load_initial_scoreboard leaves as the state the remote snapshot when
\* the GET yields a non-empty document with a #scoreboard element, and the
\* cache entry is then the remote body whatever it held before; otherwise the
\* state is the cached snapshot when there is one; otherwise the markup in
\* place stands as it is, which is the shipped markup when no team name was
\* typed into before; in all three cases both stacks are empty.
C11_LoadFallbackChain ==
    [][ last'.type = "load" =>
          /\ undoable_scoreboards' = <<>>
          /\ redoable_scoreboards' = <<>>
          /\ IF last'.id = "doc"
             THEN /\ Serialize(scoreboard') = last'.value
                  /\ cache' = Item(last'.value)
             ELSE IF cache # NoItem
             THEN /\ Serialize(scoreboard') = cache[1]
                  /\ cache' = cache
             ELSE /\ Serialize(scoreboard') = Serialize(scoreboard)
                  /\ act.type = "init" =>
                         Serialize(scoreboard') = Serialize(DefaultScoreboard)
                  /\ cache' = NoItem ]_vars

C11_Witness ==
    /\ last.type = "load"
    /\ last.id = "doc"
    /\ last.stored # NoItem
    /\ last.stored # Item(last.value)
    /\ Serialize(scoreboard) = last.value
    /\ cache = Item(last.value)

\* Events whose handler commits a mutation through upload(): score and set
\* changes, toggle_serve, set_color, the blur that ends a team-name edit, a
\* confirmed set_position, and an undo or redo that found a snapshot to restore.
Persisting(e) ==
    \/ e.type \in {"score", "toggle_serve", "set_color", "update_team"}
    \/ e.type \in {"set_position", "undo", "redo"} /\ e.confirm

\* C12: when the handler of a committed mutation completes, the cache entry is
\* the serialization of the current state and the handler has issued exactly one
\* submission, carrying that same serialization; no event issues more than one
\* submission, and each carries the state the event leaves.
C12_CommittedMutationPersisted ==
    /\ Persisting(last) =>
          /\ cache = Item(Serialize(scoreboard))
          /\ Len(posted) = 1
          /\ posted[1].filedata = Serialize(scoreboard)
    /\ Len(posted) <= 1
    /\ posted # <<>> => posted[1] = FormData(scoreboard)

C12_Witness ==
    /\ last.type = "update_team"
    /\ act.type = "save_team"
    /\ pre.home_team # scoreboard.home_team
    /\ cache = Item(Serialize(scoreboard))
    /\ Len(posted) = 1

\* Every handler wired by add_scoreboard_listeners and the load listener can run.
Interactive ==
    /\ (phase = "ready" /\ ops < MaxOps) =>
          /\ ENABLED score
          /\ ENABLED toggle_serve
          /\ ENABLED pick_color
          /\ ENABLED set_color
          /\ ENABLED reset
          /\ ENABLED set_position
          /\ ENABLED undo
          /\ ENABLED redo
    /\ (phase = "ready" /\ editing = "none" /\ ops < MaxOps) => ENABLED save_team
    /\ (phase = "ready" /\ editing # "none") =>
          /\ ENABLED keystroke
          /\ ENABLED update_team

\* C13: a submission that is answered (accepted or rejected) or that fails,
\* and every step upload.php takes on scoreboard.xml for it, leaves the
\* scoreboard, both stacks, the cache entry and all other controller state as
\* they were, and whatever is pending, answered or failed, every user action
\* that the page offers stays enabled.
C13_SubmissionOutcomeIgnored ==
    /\ [][ ( \/ inflight' # inflight /\ inflight' \sqsubseteq inflight
            \/ remote' # remote
            \/ writers' # writers ) =>
              UNCHANGED <<scoreboard, undoable_scoreboards, redoable_scoreboards,
                          cache, current_position, position_style, picker,
                          undo_class, redo_class, editing, phase>> ]_vars
    /\ []Interactive

C13_Witness ==
    /\ last.type = "update_team"
    /\ Len(undoable_scoreboards) = 2
    /\ Len(posted) = 1
    /\ CopiesIn(posted[1], inflight) = 1
    /\ BagCardinality(inflight) = 1
    /\ remote = Item(Whole(posted[1].filedata))

\* C14: an undo with undoable empty and a redo with redoable empty change
\* nothing (scoreboard, both stacks, cache entry, derived state) and submit nothing.
C14_EmptyStackNoOp ==
    [][ ( \/ last'.type = "undo" /\ undoable_scoreboards = <<>>
          \/ last'.type = "redo" /\ redoable_scoreboards = <<>> ) =>
          /\ UNCHANGED <<scoreboard, undoable_scoreboards, redoable_scoreboards,
                         cache, current_position, position_style, picker,
                         undo_class, redo_class, inflight>>
          /\ posted' = <<>> ]_vars

C14_Witness ==
    /\ last.type = "undo"
    /\ ~last.confirm
    /\ undoable_scoreboards = <<>>
    /\ redoable_scoreboards # <<>>
    /\ cache # NoItem
    /\ posted = <<>>

\* C15: upload.php answers 200 and gets to write scoreboard.xml only when the
\* submitted token is the configured one, the filename is 'scoreboard.xml' and
\* filedata is present: the file then holds the submitted filedata when the
\* write went through, is as it was when the open failed, and holds a cut copy
\* of the filedata (its first characters, maybe none) when the write stopped
\* short; every other
\* request gets an error status and leaves the file as it was; every
\* submission upload() builds carries the filename 'scoreboard.xml'.
C15_EndpointAcceptsOnlyValidWrites ==
    /\ last.type = "upload.php" =>
          LET data == last.value
              valid == /\ "token" \in DOMAIN data
                       /\ data.token = last.id
                       /\ "filename" \in DOMAIN data
                       /\ data.filename = "scoreboard.xml"
                       /\ "filedata" \in DOMAIN data
          IN IF valid
             THEN /\ last.status = 200
                  /\ last.confirm => remote = Item(Whole(data.filedata))
                  /\ ~last.confirm =>
                        \/ remote = last.stored
                        \/ \E n \in 0..(Length(data.filedata) - 1) :
                              remote = fwrite(fopen(last.stored), data.filedata, 0, n)
             ELSE last.status >= 400 /\ remote = last.stored
    /\ \A el \in Uploaded :
          /\ FormData(el) \in Requests
          /\ FormData(el).filename = "scoreboard.xml"
          /\ FormData(el).filedata = Serialize(el)

C15_Witness ==
    /\ last.type = "upload.php"
    /\ DOMAIN last.value = {"token", "filename", "filedata"}
    /\ last.value.token = last.id
    /\ last.value.filename = "users.json"
    /\ last.status = 403
    /\ remote # NoItem
    /\ remote = last.stored
    /\ remote # Item(Whole(last.value.filedata))

\* Two hex digits, high then low, for a value in 0..255.
HexPair(n) == HexDigits[(n \div 16) + 1] \o HexDigits[(n % 16) + 1]

\* C16: for three channels in 0..255 and no alpha, rgba2hex gives '#' and six
\* hex digits, two per channel; with an alpha in 0..1 it gives '#' and eight
\* hex digits, the last two holding alpha scaled to 0..255 (an integer nearest
\* to 255 times alpha).
C16_HexDigitsOfColor ==
    last.type = "rgba2hex" =>
        LET c == last.value
            rgb == "#" \o HexPair(c[1]) \o HexPair(c[2]) \o HexPair(c[3])
        IN IF Len(c) = 3
           THEN last.id = rgb
           ELSE \E k \in 0..255 :
                   /\ 2 * (255 * c[4] - 1000 * k) <= 1000
                   /\ 2 * (1000 * k - 255 * c[4]) <= 1000
                   /\ last.id = rgb \o HexPair(k)

C16_Witness ==
    /\ last.type = "rgba2hex"
    /\ last.value = <<7, 255, 0, 500>>
    /\ last.id = "#07ff0080"

\* A press of a set counter's plus button, and of its minus button.
SetPlus(e) == e.type = "score" /\ e.id \in {"home_set_plus", "away_set_plus"}

SetMinus(e) == e.type = "score" /\ e.id \in {"home_set_minus", "away_set_minus"}

\* C17: a set increment raises the target set counter by exactly 1 and pushes
\* one snapshot whatever the answer to the next-set confirmation; confirmed, both
\* scores become 0; declined, both scores keep their values; a set decrement
\* asks nothing, pushes one snapshot and leaves both scores as they were.
C17_SetChangeAndScores ==
    [][ /\ SetPlus(last') =>
              /\ scoreboard'[CounterOf(last'.id)] =
                     toText(parseInt(scoreboard[CounterOf(last'.id)]) + 1)
              /\ undoable_scoreboards' =
                     Append(undoable_scoreboards, Serialize(scoreboard))
              /\ last'.confirm =>
                     scoreboard'.home_score = "0" /\ scoreboard'.away_score = "0"
              /\ ~last'.confirm =>
                     /\ scoreboard'.home_score = scoreboard.home_score
                     /\ scoreboard'.away_score = scoreboard.away_score
        /\ SetMinus(last') =>
              /\ ~last'.confirm
              /\ undoable_scoreboards' =
                     Append(undoable_scoreboards, Serialize(scoreboard))
              /\ scoreboard'.home_score = scoreboard.home_score
              /\ scoreboard'.away_score = scoreboard.away_score ]_vars

C17_Witness ==
    /\ SetMinus(last)
    /\ last.id = "away_set_minus"
    /\ pre.away_set = "1"
    /\ scoreboard.away_set = "0"
    /\ pre.home_score = "1"
    /\ scoreboard.home_score = "1"

\* C18: until load_initial_scoreboard has settled no handler is wired and no
\* user mutation has touched the shipped markup, the stacks or the endpoint;
\* once it has settled, whatever the outcome (remote document, cache fallback,
\* nothing stored, failed fetch), the handlers are wired; the state the load
\* replaces is never one a user action produced.
C18_WiredAfterLoadSettles ==
    /\ phase \in {"loading", "reading"} =>
          /\ ~scoreboard.bound
          /\ Serialize(scoreboard) = Serialize(DefaultScoreboard)
          /\ undoable_scoreboards = <<>> /\ redoable_scoreboards = <<>>
          /\ posted = <<>> /\ inflight = EmptyBag
    /\ phase = "ready" => scoreboard.bound
    /\ last.type = "load" =>
          /\ phase = "ready"
          /\ undoable_scoreboards = <<>> /\ redoable_scoreboards = <<>>
          /\ inflight = EmptyBag

\* C19: toggle_serve pushes one snapshot of the state before it and then moves
\* the serve: from home to away, from away to home, from nobody to home; nothing
\* else of the scoreboard changes, and afterwards exactly one side serves.
C19_ToggleFlipsServe ==
    [][ last'.type = "toggle_serve" =>
          /\ undoable_scoreboards' =
                 Append(undoable_scoreboards, Serialize(scoreboard))
          /\ scoreboard' =
                 [scoreboard EXCEPT !.home_serve = ~scoreboard.home_serve,
                                    !.away_serve = scoreboard.home_serve]
          /\ scoreboard'.home_serve # scoreboard'.away_serve ]_vars

C19_Witness ==
    /\ last.type = "toggle_serve"
    /\ ~pre.home_serve
    /\ ~pre.away_serve
    /\ scoreboard.home_serve
    /\ ~scoreboard.away_serve

\* C20: in a team-name edit session the focus, with or without its listener
\* registered, pushes one snapshot of the state before any typing and persists
\* nothing, the keystrokes push nothing and persist nothing, and the blur pushes
\* nothing and persists once (cache entry and one submission, both the
\* serialization of the edited state); an undo right after the session shows
\* the team name again that was shown before the edit began.
C20_EditSessionOneSnapshotOnePersist ==
    /\ [][ /\ last'.type \in {"save_team", "focus"} =>
                 /\ undoable_scoreboards' =
                        Append(undoable_scoreboards, Serialize(scoreboard))
                 /\ posted' = <<>>
                 /\ UNCHANGED <<scoreboard, cache, inflight>>
           /\ last'.type = "keystroke" =>
                 /\ posted' = <<>>
                 /\ UNCHANGED <<undoable_scoreboards, redoable_scoreboards,
                                cache, inflight>>
           /\ last'.type = "update_team" =>
                 /\ UNCHANGED <<undoable_scoreboards, redoable_scoreboards, scoreboard>>
                 /\ posted' = <<FormData(scoreboard)>>
                 /\ inflight' = inflight (+) SetToBag({FormData(scoreboard)})
                 /\ cache' = Item(Serialize(scoreboard)) ]_vars
    /\ []((chain = 2 /\ act.type \in {"save_team", "focus"}) =>
             scoreboard[act.id] = pre[act.id])

\* C21: once every submission the controller issued has been delivered and
\* accepted, scoreboard.xml holds the snapshot carried by the most recent
\* submission, which is the current state, whatever order the requests
\* completed in (stated for the states right after a handler that submitted,
\* and for the runs where upload.php handled one request at a time and every
\* open and write went through, so that only the order of arrival is left).
C21_LastWriteWins ==
    (Persisting(last) /\ Len(posted) = 1 /\ inflight = EmptyBag /\ faults = {}) =>
        /\ remote = Item(Whole(posted[1].filedata))
        /\ remote = Item(Whole(Serialize(scoreboard)))

\* C22 as stated: a confirmed reset issues no submission to the endpoint.
C22_ResetSubmitsNothing ==
    (last.type = "reset" /\ last.confirm) => posted = <<>>

\* C22 as amended: a confirmed reset issues exactly one submission, carrying the
\* zeroed state, and leaves no cache entry (C22_Witness: a run where that
\* submission has been written whole to scoreboard.xml with nothing else
\* handled since the reset, so the remote copy changed without a later mutation).
C22_ResetSubmitsZeroedState ==
    (last.type = "reset" /\ last.confirm) =>
        /\ cache = NoItem
        /\ Len(posted) = 1
        /\ posted[1] = FormData(scoreboard)
        /\ \A c \in Counters : posted[1].filedata[c] = "0"

C22_Witness ==
    /\ last.type = "reset"
    /\ last.confirm
    /\ pre.home_score # "0"
    /\ cache = NoItem
    /\ inflight = EmptyBag
    /\ faults = {}
    /\ remote = Item(Whole(Serialize(scoreboard)))

\* An undo or redo that found a snapshot to restore.
Effective(e) == e.type \in {"undo", "redo"} /\ e.confirm

\* C23: when an effective undo or redo returns, the scoreboard element is the
\* freshly parsed snapshot with every scoreboard handler bound to it, so each
\* user action the page offers can run next on the restored state.
C23_ReboundAfterRestore ==
    Effective(last) =>
        /\ scoreboard.bound
        /\ scoreboard = add_scoreboard_listeners(Parse(Serialize(scoreboard)))
        /\ editing = "none"
        /\ ops < MaxOps =>
              /\ ENABLED score
              /\ ENABLED toggle_serve
              /\ ENABLED pick_color
              /\ ENABLED set_color
              /\ ENABLED save_team
              /\ ENABLED undo
              /\ ENABLED redo

C23_Witness ==
    /\ last.type = "undo"
    /\ last.confirm
    /\ chain = 2
    /\ scoreboard.bound
    /\ ops < MaxOps
    /\ Serialize(scoreboard) = pre
    /\ pre # post

\* A stack without its top entry, and its top entry.
Front(stack) == SubSeq(stack, 1, Len(stack) - 1)

Top(stack) == stack[Len(stack)]

\* C24: an effective undo removes exactly the top entry of undoable, makes it
\* the state and pushes exactly the state current before it onto redoable; an
\* effective redo does the same with the stacks exchanged; neither changes
\* |undoable| + |redoable|; a redo right after an undo therefore pops what the
\* undo pushed and pushes back what the undo popped, and after an action, an
\* undo and a redo the state is the one after the action, the top of undoable
\* the one before it, and redoable is empty again.
C24_StackConservation ==
    /\ [][ /\ (last'.type = "undo" /\ last'.confirm) =>
                 /\ undoable_scoreboards # <<>>
                 /\ undoable_scoreboards' = Front(undoable_scoreboards)
                 /\ redoable_scoreboards' =
                        Append(redoable_scoreboards, Serialize(scoreboard))
                 /\ Serialize(scoreboard') = Top(undoable_scoreboards)
           /\ (last'.type = "redo" /\ last'.confirm) =>
                 /\ redoable_scoreboards # <<>>
                 /\ redoable_scoreboards' = Front(redoable_scoreboards)
                 /\ undoable_scoreboards' =
                        Append(undoable_scoreboards, Serialize(scoreboard))
                 /\ Serialize(scoreboard') = Top(redoable_scoreboards)
           /\ Effective(last') =>
                 Len(undoable_scoreboards') + Len(redoable_scoreboards') =
                 Len(undoable_scoreboards) + Len(redoable_scoreboards) ]_vars
    /\ []((chain = 3 /\ last.confirm) =>
             /\ redoable_scoreboards = <<>>
             /\ undoable_scoreboards # <<>>
             /\ Top(undoable_scoreboards) = pre
             /\ Serialize(scoreboard) = post)

C24_Witness ==
    /\ chain = 3
    /\ last.type = "redo"
    /\ last.confirm
    /\ Len(undoable_scoreboards) = 1
    /\ redoable_scoreboards = <<>>
    /\ Top(undoable_scoreboards) = pre
    /\ Serialize(scoreboard) = post
    /\ pre # post

\* The steps that may move the serve: a score increment, toggle_serve, an
\* effective undo or redo, and the initial load.
ServeChanger(e) ==
    \/ e.type = "score" /\ e.id \in {"home_score_plus", "away_score_plus"}
    \/ e.type \in {"toggle_serve", "load"}
    \/ Effective(e)

\* C25 as stated: every step other than a score increment, toggle_serve, an
\* effective undo or redo and the initial load (so: score decrements, set
\* increments and decrements whatever the answer, set_color, pick_color,
\* team-name edits, reset, set_position, undo and redo on an empty stack) leaves
\* both serve markers as they were; pick_color leaves the scoreboard, both
\* stacks and the cache as they were.
C25_ServeFrame ==
    [][ /\ ~ServeChanger(last') =>
             /\ scoreboard'.home_serve = scoreboard.home_serve
             /\ scoreboard'.away_serve = scoreboard.away_serve
        /\ last'.type = "pick_color" =>
             UNCHANGED <<scoreboard, undoable_scoreboards,
                         redoable_scoreboards, cache>> ]_vars

\* C25 as amended: the serve markers are framed as stated; pick_color leaves the
\* scoreboard and both stacks as they were, and the cache too when no team name
\* has the focus; when one has, picker.focus() ends the edit and the blur
\* listener persists the state as it stands: the cache entry becomes its
\* serialization and one submission carries it.
C25_ServeFrameBlurPersists ==
    [][ /\ ~ServeChanger(last') =>
             /\ scoreboard'.home_serve = scoreboard.home_serve
             /\ scoreboard'.away_serve = scoreboard.away_serve
        /\ last'.type = "pick_color" =>
             /\ UNCHANGED <<scoreboard, undoable_scoreboards, redoable_scoreboards>>
             /\ editing' = "none"
             /\ IF editing = "none"
                THEN cache' = cache /\ posted' = <<>> /\ inflight' = inflight
                ELSE /\ cache' = Item(Serialize(scoreboard))
                     /\ posted' = <<FormData(scoreboard)>>
                     /\ inflight' = fetch(inflight, FormData(scoreboard)) ]_vars

C25_Witness ==
    /\ last.type = "pick_color"
    /\ act.type = "save_team"
    /\ Len(posted) = 1
    /\ cache = Item(Serialize(scoreboard))
    /\ scoreboard[act.id] # pre[act.id]
    /\ scoreboard.home_serve
    /\ editing = "none"

====
